---- MODULE Spec2Model ----
(***************************************************************************)
(* A model of the weather application: the get_weather pipeline            *)
(* (src/src/api_data.py, src/src/data_parser.py, src/src/weather.py) and   *)
(* the Flask index handler with its history log (src/app.py).              *)
(*                                                                         *)
(* Conventions.                                                            *)
(*   - Python's None / a present value is the sequence <<>> / <<v>>        *)
(*     (None, Some(v)) wherever a value may be None.                       *)
(*   - A float with two decimals (the result of "{:.2f}") is the integer   *)
(*     number of hundredths: 65.17 is 6517.                                *)
(*   - A raised exception is pc = "raised" with error = the Python class   *)
(*     of the exception that leaves get_weather.                           *)
(*   - Python's 0-based index i is the TLA+ index i + 1.                   *)
(***************************************************************************)
EXTENDS Integers, Sequences, FiniteSets, TLC

VARIABLES
    \* ---- one get_weather(location, days_num) invocation -----------------
    pc,           \* position inside get_weather
    location,     \* argument of get_weather
    days_num,     \* argument of get_weather
    api,          \* the API object: latitude, longitude, city, country, result
    res,          \* the last geocoding response handled by get_geocode
    calls,        \* the external HTTP calls issued so far, in order
    wd,           \* the WeatherData object: the six series, days_list, loop index
    country_arg,  \* make_data_ready's 2nd argument, once evaluated
    city_arg,     \* make_data_ready's 3rd argument, once evaluated
    data,         \* get_weather's return value
    error,        \* class of the exception that left get_weather
    \* ---- the Flask process: concurrent index() handlers ------------------
    hpc,          \* per request: position inside index / save_to_history
    method,       \* per request: request.method
    wx,           \* per request: how the get_weather call ended
    history,      \* per request: save_to_history's local list
    saved,        \* per request: how save_to_history ended
    page,         \* per request: what index rendered
    file          \* HISTORY_FILE on disk

pipeVars == <<pc, location, days_num, api, res, calls, wd, country_arg, city_arg, data, error>>
webVars == <<hpc, method, wx, history, saved, page, file>>
vars == <<pipeVars, webVars>>

----------------------------------------------------------------------------
(* Bounds of the model *)

\* largest requested day count
MaxDays == 2
\* number of concurrent requests served by the Flask process
NumRequests == 2

(* Program constants *)

\* range(24) in calc_total_humidity, humiditys[24::] in create_days_list
HoursPerDay == 24

----------------------------------------------------------------------------
(* Python values *)

None == <<>>
Some(v) == <<v>>
IsNone(o) == o = <<>>
Val(o) == o[1]

RECURSIVE SumSeq(_)
SumSeq(s) == IF s = <<>> THEN 0 ELSE s[1] + SumSeq(Tail(s))

Take(s, n) == SubSeq(s, 1, IF n < Len(s) THEN n ELSE Len(s))
\* Python's s[n::]
Drop(s, n) == SubSeq(s, n + 1, Len(s))

----------------------------------------------------------------------------
(* Inputs: what the two external services may answer *)

\* the hourly series of the payload in tests/test_weather.py (Haifa, 2025-01-21)
TestHumidity ==
    <<79, 84, 85, 85, 86, 86, 81, 78, 70, 57, 49, 42,
      40, 38, 34, 35, 56, 63, 68, 69, 71, 72, 76, 60>>
TestCloudCover ==
    <<42, 20, 6, 2, 98, 100, 44, 100, 100, 100, 100, 100,
      100, 23, 0, 0, 0, 0, 0, 0, 11, 63, 100, 100>>

\* hourly series of any length: a base series (1: the test payload's day
\* first, 2: a synthetic ramp) continued by percentages that differ from
\* hour to hour and from day to day
HourlyValue(base, k) ==
    IF base = 1 /\ k <= HoursPerDay THEN TestHumidity[k] ELSE (k * 37 + base * 11) % 101
HumiditySeries(base, n) == [k \in 1..n |-> HourlyValue(base, k)]
CloudSeries(n) ==
    [k \in 1..n |-> IF k <= HoursPerDay THEN TestCloudCover[k] ELSE (k * 53) % 101]
\* daily series: date labels, temperatures and UV index in tenths
TimeSeries(n) == [k \in 1..n |-> 20250120 + k]
MaxTempSeries(n) == [k \in 1..n |-> 213 + 7 * k]
MinTempSeries(n) == [k \in 1..n |-> 121 - 5 * k]
UvSeries(n) == [k \in 1..n |-> 42 + k]

HourlyKeys == {"relative_humidity_2m", "cloud_cover"}
DailyKeys == {"time", "temperature_2m_max", "temperature_2m_min", "uv_index_max"}
SubKeys == HourlyKeys \cup DailyKeys
TopKeys == {"hourly", "daily"}

\* lengths of the hourly series the forecast service may return: around
\* every whole number of days
HourlyLens == {n \in 0..(HoursPerDay * MaxDays) : n % HoursPerDay \in {0, 1, HoursPerDay - 1}}
DailyLens == 0..MaxDays
Bases == {1, 2}

Shorten(n, key, short) == IF key = short /\ n > 0 THEN n - 1 ELSE n
Entry(key, missing, series) == IF key = missing THEN None ELSE Some(series)

\* A forecast payload: a JSON object with the hourly and daily objects, where
\* at most one series is one entry shorter than its siblings (short) and at
\* most one key is absent (missing).  A present key holds Some(value); an
\* absent one is None, which is what dict.get answers for it.
Payload(base, hl, dl, short, missing) ==
    [hourly |->
        IF missing = "hourly" THEN None
        ELSE Some([relative_humidity_2m |->
                       Entry("relative_humidity_2m", missing,
                             HumiditySeries(base, Shorten(hl, "relative_humidity_2m", short))),
                   cloud_cover |->
                       Entry("cloud_cover", missing,
                             CloudSeries(Shorten(hl, "cloud_cover", short)))]),
     daily |->
        IF missing = "daily" THEN None
        ELSE Some([time |->
                       Entry("time", missing, TimeSeries(Shorten(dl, "time", short))),
                   temperature_2m_max |->
                       Entry("temperature_2m_max", missing,
                             MaxTempSeries(Shorten(dl, "temperature_2m_max", short))),
                   temperature_2m_min |->
                       Entry("temperature_2m_min", missing,
                             MinTempSeries(Shorten(dl, "temperature_2m_min", short))),
                   uv_index_max |->
                       Entry("uv_index_max", missing,
                             UvSeries(Shorten(dl, "uv_index_max", short)))])]

Payloads ==
    {Payload(b, hl, dl, short, missing) :
        b \in Bases, hl \in HourlyLens, dl \in DailyLens,
        short \in SubKeys \cup {"none"}, missing \in SubKeys \cup TopKeys \cup {"none"}}

\* what requests.get(weather_api_url, ...).json() does: raises, or a payload
ForecastResponses == {[kind |-> "raises"]} \cup {[kind |-> "json", body |-> p] : p \in Payloads}

\* the first result of a geocoding response, as geo_data.get answers for its
\* four keys (coordinates in tenths of a degree); the last one is the JSON
\* object {}, for which every get answers None
Places ==
    {[name |-> Some("Haifa"), country |-> Some("Israel"),
      latitude |-> Some(328), longitude |-> Some(350)],
     [name |-> Some("Berlin"), country |-> Some("Germany"),
      latitude |-> Some(525), longitude |-> Some(134)],
     [name |-> None, country |-> None, latitude |-> None, longitude |-> None]}

\* what requests.get(geo_api_url, ...).json() does:
\*   raises      the request or the JSON decoding raises
\*   no_results  a JSON object without the key "results"
\*   empty       "results": []
\*   not_object  "results": [x] with x no JSON object
\*   ok          "results": [place] with place a JSON object
GeoResponses ==
    {[kind |-> k] : k \in {"raises", "no_results", "empty", "not_object"}}
        \cup {[kind |-> "ok", place |-> p] : p \in Places}

Locations == {"haifa"}

----------------------------------------------------------------------------
(* src/src/api_data.py *)

\* API.__init__
ApiInit == [latitude |-> None, longitude |-> None, city |-> None, country |-> None, result |-> None]

\* The exception raised inside get_geocode's try block for a response:
\* requests.get(...).json() raising, None[0], [][0], x.get for a non-object x.
GeocodeInnerError(r) ==
    CASE r.kind = "raises" -> "RequestException"
      [] r.kind = "no_results" -> "TypeError"
      [] r.kind = "empty" -> "IndexError"
      [] r.kind = "not_object" -> "AttributeError"
      [] OTHER -> "none"

\* a plausible slip: except (IndexError, TypeError) instead of except Exception
GeocodeHandlerNarrow(inner) ==
    IF inner \in {"IndexError", "TypeError"} THEN "ValueError" ELSE inner

\* get_geocode's handler: except Exception as e: raise ValueError(
\* "Location not found: ...") from e.  ValueError carrying that message is the
\* source's location-not-found error kind.
GeocodeHandler(inner) == "ValueError"

\* API.get_geocode: one geocoding request; the fields are assigned from the
\* first result, or the handler's exception leaves the method (and with it
\* get_weather, which catches nothing).  next is where the caller continues.
get_geocode(r, next) ==
    /\ calls' = Append(calls, "geocode")
    /\ res' = Some(r)
    /\ IF GeocodeInnerError(r) = "none"
       THEN /\ api' = [api EXCEPT !.city = r.place.name,
                                  !.country = r.place.country,
                                  !.latitude = r.place.latitude,
                                  !.longitude = r.place.longitude]
            /\ pc' = next
            /\ error' = error
       ELSE /\ api' = api
            /\ pc' = "raised"
            /\ error' = GeocodeHandler(GeocodeInnerError(r))

\* get_weather line 115 and the first half of API.get_api_data:
\* api_obj = API(location, days_num); self.get_geocode()
GetApiDataGeocode ==
    /\ pc = "get_api_data"
    /\ \E r \in GeoResponses : get_geocode(r, "forecast")
    /\ UNCHANGED <<location, days_num, wd, country_arg, city_arg, data, webVars>>

\* API.get_weather, and get_api_data's return self.result: one forecast
\* request for the coordinates in the object's fields; a raising request is
\* re-raised as ConnectionError, a JSON answer is stored unvalidated.
GetApiDataForecast ==
    /\ pc = "forecast"
    /\ calls' = Append(calls, "forecast")
    /\ \E f \in ForecastResponses :
          IF f.kind = "raises"
          THEN /\ pc' = "raised"
               /\ error' = "ConnectionError"
               /\ api' = api
          ELSE /\ pc' = "parse"
               /\ error' = error
               /\ api' = [api EXCEPT !.result = Some(f.body)]
    /\ UNCHANGED <<location, days_num, res, wd, country_arg, city_arg, data, webVars>>

\* API.get_country_name, evaluated as make_data_ready's 2nd argument
GetCountryName ==
    /\ pc = "country"
    /\ \E r \in GeoResponses : get_geocode(r, "city")
    /\ country_arg' = IF pc' = "city" THEN api'.country ELSE country_arg
    /\ UNCHANGED <<location, days_num, wd, city_arg, data, webVars>>

\* API.get_city_name, evaluated as make_data_ready's 3rd argument
GetCityName ==
    /\ pc = "city"
    /\ \E r \in GeoResponses : get_geocode(r, "format")
    /\ city_arg' = IF pc' = "format" THEN api'.city ELSE city_arg
    /\ UNCHANGED <<location, days_num, wd, country_arg, data, webVars>>

----------------------------------------------------------------------------
(* src/src/data_parser.py *)

\* Parser.__init__: api_data.get('hourly'), api_data.get('daily')
Parser(api_data) == [hourly_data |-> api_data.hourly, daily_data |-> api_data.daily]

\* Parser.get_*: self.<x>_data.get(key).  On a None object the attribute
\* access raises AttributeError; an absent key yields None.
ParserGet(obj, key) ==
    IF IsNone(obj) THEN [err |-> "AttributeError", v |-> None]
    ELSE [err |-> "none", v |-> Val(obj)[key]]

----------------------------------------------------------------------------
(* src/src/weather.py *)

\* DayWeather.__init__
DayWeather ==
    [max_temp |-> None, min_temp |-> None, total_humidity |-> None,
     uv_index |-> None, time |-> None, cloud_cover |-> None]

WeatherDataNone ==
    [time |-> None, uv_index |-> None, cloud_cover |-> None, max_temp |-> None,
     min_temp |-> None, humiditys |-> None, days_list |-> <<>>, i |-> 0]

\* a plausible slip: cutting the quotient to two decimals instead of rounding
Format2fTruncate(total, n) == (total * 100) \div n

\* float("{:.2f}".format(total / n)) in hundredths, for integers total >= 0
\* and n > 0: the quotient to two decimals, a tie going to the even digit
\* (total / 24 is an exact double whenever it lies half-way).
Format2f(total, n) ==
    LET q == (total * 100) \div n
        r == (total * 100) % n
    IN  IF 2 * r > n THEN q + 1
        ELSE IF 2 * r < n THEN q
        ELSE q + (q % 2)

\* s[i] for a 0-based i >= 0: TypeError on None, IndexError past the end
Subscript(s, i) ==
    IF IsNone(s) THEN [err |-> "TypeError", v |-> 0]
    ELSE IF i >= Len(Val(s)) THEN [err |-> "IndexError", v |-> 0]
    ELSE [err |-> "none", v |-> Val(s)[i + 1]]

\* WeatherData.calc_total_humidity: the sum of humiditys[0..23], divided by
\* 24 and formatted to two decimals
calc_total_humidity(humiditys) ==
    IF IsNone(humiditys) THEN [err |-> "TypeError", v |-> 0]
    ELSE IF Len(Val(humiditys)) < HoursPerDay THEN [err |-> "IndexError", v |-> 0]
    ELSE [err |-> "none",
          v |-> Format2f(SumSeq(Take(Val(humiditys), HoursPerDay)), HoursPerDay)]

\* WeatherData.__init__ (with Parser.__init__ before it): the first getter
\* on a None hourly_data or daily_data raises AttributeError; otherwise the
\* six series are stored as the getters return them.
WeatherDataInit(p) ==
    LET gets == <<ParserGet(p.daily_data, "time"),
                  ParserGet(p.daily_data, "uv_index_max"),
                  ParserGet(p.hourly_data, "cloud_cover"),
                  ParserGet(p.daily_data, "temperature_2m_max"),
                  ParserGet(p.daily_data, "temperature_2m_min"),
                  ParserGet(p.hourly_data, "relative_humidity_2m")>>
        bad == {k \in 1..6 : gets[k].err # "none"}
    IN  IF bad # {}
        THEN [err |-> gets[CHOOSE k \in bad : \A j \in bad : k <= j].err, v |-> WeatherDataNone]
        ELSE [err |-> "none",
              v |-> [time |-> gets[1].v, uv_index |-> gets[2].v, cloud_cover |-> gets[3].v,
                     max_temp |-> gets[4].v, min_temp |-> gets[5].v, humiditys |-> gets[6].v,
                     days_list |-> <<>>, i |-> 0]]

\* get_weather lines 116-117: Parser(api_obj.get_api_data()), WeatherData(...)
ParseAndInit ==
    /\ pc = "parse"
    /\ LET w == WeatherDataInit(Parser(Val(api.result)))
       IN  IF w.err = "none"
           THEN /\ wd' = w.v
                /\ pc' = "create_days_list"
                /\ error' = error
           ELSE /\ wd' = wd
                /\ pc' = "raised"
                /\ error' = w.err
    /\ UNCHANGED <<location, days_num, api, res, calls, country_arg, city_arg, data, webVars>>

\* a plausible slip (or "fix"): the first hour of day i instead of hour i
CloudCoverIndexDaily(w) == w.i * HoursPerDay
\* new_day.cloud_cover = self.cloud_cover[i]
CloudCoverIndex(w) == w.i

\* a plausible slip: advancing by 23 hours
NextHumiditysOffByOne(h) == Drop(h, HoursPerDay - 1)
\* self.humiditys = self.humiditys[24::]
NextHumiditys(h) == Drop(h, HoursPerDay)

\* One pass of create_days_list's loop for day w.i: the five subscripts in
\* program order, then calc_total_humidity; the first to raise ends the pass.
CreateDay(w) ==
    LET reads == <<Subscript(w.max_temp, w.i),
                   Subscript(w.min_temp, w.i),
                   Subscript(w.time, w.i),
                   Subscript(w.uv_index, w.i),
                   Subscript(w.cloud_cover, CloudCoverIndex(w)),
                   calc_total_humidity(w.humiditys)>>
        bad == {k \in 1..6 : reads[k].err # "none"}
        new_day == [DayWeather EXCEPT !.max_temp = Some(reads[1].v),
                                      !.min_temp = Some(reads[2].v),
                                      !.time = Some(reads[3].v),
                                      !.uv_index = Some(reads[4].v),
                                      !.cloud_cover = Some(reads[5].v),
                                      !.total_humidity = Some(reads[6].v)]
    IN  IF bad # {}
        THEN [err |-> reads[CHOOSE k \in bad : \A j \in bad : k <= j].err, v |-> w]
        ELSE [err |-> "none",
              v |-> [w EXCEPT !.days_list = Append(w.days_list, new_day),
                              !.humiditys = Some(NextHumiditys(Val(w.humiditys))),
                              !.i = w.i + 1]]

\* create_days_list, one loop pass: for i in range(self.days_num)
CreateDaysListPass ==
    /\ pc = "create_days_list"
    /\ wd.i < days_num
    /\ LET d == CreateDay(wd)
       IN  IF d.err = "none"
           THEN /\ wd' = d.v
                /\ pc' = pc
                /\ error' = error
           ELSE /\ wd' = wd
                /\ pc' = "raised"
                /\ error' = d.err
    /\ UNCHANGED <<location, days_num, api, res, calls, country_arg, city_arg, data, webVars>>

\* create_days_list: the loop is exhausted, return self.days_list
CreateDaysListReturn ==
    /\ pc = "create_days_list"
    /\ wd.i >= days_num
    /\ pc' = "country"
    /\ UNCHANGED <<location, days_num, api, res, calls, wd, country_arg, city_arg, data, error, webVars>>

\* a plausible slip: the two positional arguments exchanged in the record
DayElementSwapped(day, country, city) ==
    [country |-> city, city |-> country, time |-> day.time, max_temp |-> day.max_temp,
     min_temp |-> day.min_temp, humidity |-> day.total_humidity,
     uv_index |-> day.uv_index, cloud_cover |-> day.cloud_cover]

\* make_data_ready's day_element
DayElement(day, country, city) ==
    [country |-> country, city |-> city, time |-> day.time, max_temp |-> day.max_temp,
     min_temp |-> day.min_temp, humidity |-> day.total_humidity,
     uv_index |-> day.uv_index, cloud_cover |-> day.cloud_cover]

\* make_data_ready: one dictionary per day, in order
make_data_ready(days_list, country, city) ==
    [k \in 1..Len(days_list) |-> DayElement(days_list[k], country, city)]

\* get_weather line 120, once both arguments are evaluated
MakeDataReady ==
    /\ pc = "format"
    /\ data' = Some(make_data_ready(wd.days_list, country_arg, city_arg))
    /\ pc' = "done"
    /\ UNCHANGED <<location, days_num, api, res, calls, wd, country_arg, city_arg, error, webVars>>

----------------------------------------------------------------------------
(* src/app.py *)

Requests == 1..NumRequests

\* HISTORY_FILE: absent, or holding the JSON list entries (valid), or holding
\* something json.load rejects (an empty or partly written file)
FileAbsent == [exists |-> FALSE, valid |-> FALSE, entries |-> <<>>]
FileOf(entries) == [exists |-> TRUE, valid |-> TRUE, entries |-> entries]
FileBroken == [exists |-> TRUE, valid |-> FALSE, entries |-> <<>>]

\* log_entry of request t (its timestamp, location and data)
LogEntry(t) == [request |-> t]
\* an entry written by an earlier request, before the ones modelled
PriorEntry == [request |-> 0]

\* index: if request.method == "POST" the try block is entered, otherwise
\* the page is rendered with data = None
IndexBegin(t) ==
    /\ hpc[t] = "index"
    /\ \E m \in {"GET", "POST"} :
          /\ method' = [method EXCEPT ![t] = m]
          /\ hpc' = [hpc EXCEPT ![t] = IF m = "POST" THEN "get_weather" ELSE "render"]
    /\ UNCHANGED <<wx, history, saved, page, file, pipeVars>>

\* index line 50: data = get_weather(location, days_num), which returns the
\* records or raises; a raise is caught by index's except
IndexGetWeather(t) ==
    /\ hpc[t] = "get_weather"
    /\ \E o \in {"returned", "raised"} :
          /\ wx' = [wx EXCEPT ![t] = o]
          /\ hpc' = [hpc EXCEPT ![t] = IF o = "returned" THEN "save_exists" ELSE "except"]
    /\ UNCHANGED <<method, history, saved, page, file, pipeVars>>

\* a plausible slip: the handler re-raises, and index's except catches it
SaveExceptNextReraise == "except"
\* save_to_history's except Exception: the error is logged and the function
\* returns normally into index
SaveExceptNext == "saved"

\* save_to_history lines 74 and 77-80: the file does not exist; history = []
\* and the entry is appended
SaveNoFile(t) ==
    /\ hpc[t] = "save_exists"
    /\ ~file.exists
    /\ history' = [history EXCEPT ![t] = <<LogEntry(t)>>]
    /\ hpc' = [hpc EXCEPT ![t] = "save_open"]
    /\ UNCHANGED <<method, wx, saved, page, file, pipeVars>>

\* save_to_history lines 74-76 and 80: the file exists; it is opened and
\* json.load reads the whole list, then the entry is appended.  open or
\* read may fail (io), and json.load raises on a file that is no JSON.
SaveRead(t) ==
    /\ hpc[t] = "save_exists"
    /\ file.exists
    /\ \E io \in {"ok", "fails"} :
          IF io = "ok" /\ file.valid
          THEN /\ history' = [history EXCEPT ![t] = Append(file.entries, LogEntry(t))]
               /\ hpc' = [hpc EXCEPT ![t] = "save_open"]
               /\ saved' = saved
          ELSE /\ history' = history
               /\ hpc' = [hpc EXCEPT ![t] = SaveExceptNext]
               /\ saved' = [saved EXCEPT ![t] = "failed"]
    /\ UNCHANGED <<method, wx, page, file, pipeVars>>

\* save_to_history line 82: open(HISTORY_FILE, "w") truncates the file, or
\* fails and leaves it as it is
SaveOpen(t) ==
    /\ hpc[t] = "save_open"
    /\ \E io \in {"ok", "fails"} :
          IF io = "ok"
          THEN /\ file' = FileBroken
               /\ hpc' = [hpc EXCEPT ![t] = "save_dump"]
               /\ saved' = saved
          ELSE /\ file' = file
               /\ hpc' = [hpc EXCEPT ![t] = SaveExceptNext]
               /\ saved' = [saved EXCEPT ![t] = "failed"]
    /\ UNCHANGED <<method, wx, history, page, pipeVars>>

\* save_to_history line 83: json.dump writes the local list (taken here as
\* one write of the whole text), or fails part-way
SaveDump(t) ==
    /\ hpc[t] = "save_dump"
    /\ \E io \in {"ok", "fails"} :
          IF io = "ok"
          THEN /\ file' = FileOf(history[t])
               /\ hpc' = [hpc EXCEPT ![t] = "saved"]
               /\ saved' = [saved EXCEPT ![t] = "written"]
          ELSE /\ file' = FileBroken
               /\ hpc' = [hpc EXCEPT ![t] = SaveExceptNext]
               /\ saved' = [saved EXCEPT ![t] = "failed"]
    /\ UNCHANGED <<method, wx, history, page, pipeVars>>

\* index lines 52-54: save_to_history returned; log, leave the try block
IndexSaved(t) ==
    /\ hpc[t] = "saved"
    /\ hpc' = [hpc EXCEPT ![t] = "render"]
    /\ UNCHANGED <<method, wx, history, saved, page, file, pipeVars>>

\* index lines 56-59: the error page
IndexExcept(t) ==
    /\ hpc[t] = "except"
    /\ page' = [page EXCEPT ![t] = "error"]
    /\ hpc' = [hpc EXCEPT ![t] = "done"]
    /\ UNCHANGED <<method, wx, history, saved, file, pipeVars>>

\* index lines 62-64: the page with data (the records, or None for a GET)
IndexRender(t) ==
    /\ hpc[t] = "render"
    /\ page' = [page EXCEPT ![t] = IF method[t] = "POST" THEN "data" ELSE "form"]
    /\ hpc' = [hpc EXCEPT ![t] = "done"]
    /\ UNCHANGED <<method, wx, history, saved, file, pipeVars>>

----------------------------------------------------------------------------
(* Specifications *)

\* get_weather is entered with its arguments; nothing is constructed yet
PipeInit ==
    /\ pc = "get_api_data"
    /\ location \in Locations
    /\ days_num \in 0..MaxDays
    /\ api = ApiInit
    /\ res = None
    /\ calls = <<>>
    /\ wd = WeatherDataNone
    /\ country_arg = None
    /\ city_arg = None
    /\ data = None
    /\ error = "none"

\* no get_weather invocation is followed
PipeIdle ==
    /\ pc = "idle"
    /\ location = "haifa"
    /\ days_num = 0
    /\ api = ApiInit
    /\ res = None
    /\ calls = <<>>
    /\ wd = WeatherDataNone
    /\ country_arg = None
    /\ city_arg = None
    /\ data = None
    /\ error = "none"

\* NumRequests requests have arrived; the history file is absent (a fresh
\* log directory) or holds what an earlier request wrote
WebInit ==
    /\ hpc = [t \in Requests |-> "index"]
    /\ method = [t \in Requests |-> "none"]
    /\ wx = [t \in Requests |-> "none"]
    /\ history = [t \in Requests |-> <<>>]
    /\ saved = [t \in Requests |-> "none"]
    /\ page = [t \in Requests |-> "none"]
    /\ file \in {FileAbsent, FileOf(<<PriorEntry>>)}

\* no request is followed
WebIdle ==
    /\ hpc = [t \in Requests |-> "idle"]
    /\ method = [t \in Requests |-> "none"]
    /\ wx = [t \in Requests |-> "none"]
    /\ history = [t \in Requests |-> <<>>]
    /\ saved = [t \in Requests |-> "none"]
    /\ page = [t \in Requests |-> "none"]
    /\ file = FileAbsent

\* One invocation of get_weather
Init == PipeInit /\ WebIdle

Next ==
    \/ GetApiDataGeocode
    \/ GetApiDataForecast
    \/ ParseAndInit
    \/ CreateDaysListPass
    \/ CreateDaysListReturn
    \/ GetCountryName
    \/ GetCityName
    \/ MakeDataReady

Spec == Init /\ [][Next]_vars

\* The Flask process serving NumRequests requests in threads
InitHistory == PipeIdle /\ WebInit

NextHistory ==
    \E t \in Requests :
        \/ IndexBegin(t)
        \/ IndexGetWeather(t)
        \/ SaveNoFile(t)
        \/ SaveRead(t)
        \/ SaveOpen(t)
        \/ SaveDump(t)
        \/ IndexSaved(t)
        \/ IndexExcept(t)
        \/ IndexRender(t)

SpecHistory == InitHistory /\ [][NextHistory]_vars

----------------------------------------------------------------------------
(* What the properties below speak about *)

\* the forecast payload, once get_api_data has stored it
HasResult == ~IsNone(api.result)
Result == Val(api.result)
LacksKey ==
    \/ IsNone(Result.hourly)
    \/ IsNone(Result.daily)
    \/ \E k \in HourlyKeys : IsNone(Val(Result.hourly)[k])
    \/ \E k \in DailyKeys : IsNone(Val(Result.daily)[k])
\* the six series of a payload that lacks no key
OrigHumidity == Val(Val(Result.hourly).relative_humidity_2m)
OrigCloudCover == Val(Val(Result.hourly).cloud_cover)
OrigTime == Val(Val(Result.daily).time)
OrigMaxTemp == Val(Val(Result.daily).temperature_2m_max)
OrigMinTemp == Val(Val(Result.daily).temperature_2m_min)
OrigUvIndex == Val(Val(Result.daily).uv_index_max)

\* every series is long enough for days_num days
LongEnough ==
    /\ ~LacksKey
    /\ Len(OrigHumidity) >= HoursPerDay * days_num
    /\ \A s \in {OrigCloudCover, OrigTime, OrigMaxTemp, OrigMinTemp, OrigUvIndex} :
          Len(s) >= days_num
\* the hourly humidity series or some daily series is too short
TooShort ==
    /\ ~LacksKey
    /\ \/ HoursPerDay * days_num > Len(OrigHumidity)
       \/ \E s \in {OrigTime, OrigMaxTemp, OrigMinTemp, OrigUvIndex} : days_num > Len(s)

\* an exception left Parser / WeatherData / create_days_list
AggregationRaised == pc = "raised" /\ Len(calls) = 2 /\ HasResult
\* create_days_list returned its list
AggregationReturned ==
    \/ pc \in {"country", "city", "format", "done"}
    \/ pc = "raised" /\ Len(calls) > 2
\* the hours of day k (1-based) in the hourly series s
DayWindow(s, k) == SubSeq(s, HoursPerDay * (k - 1) + 1, HoursPerDay * k)

----------------------------------------------------------------------------
(* Properties *)

\* C1: when the series are long enough for days_num days, create_days_list
\* raises nothing, and the list it returns has exactly days_num records,
\* record i carrying time[i], max_temp[i], min_temp[i], uv_index[i] and the
\* single hourly cloud-cover sample cloud_cover[i].
C1_DaysListCarriesSeries ==
    /\ HasResult /\ LongEnough => ~AggregationRaised
    /\ AggregationReturned =>
          /\ Len(wd.days_list) = days_num
          /\ ~LacksKey =>
                \A k \in 1..days_num :
                    /\ wd.days_list[k].time = Some(OrigTime[k])
                    /\ wd.days_list[k].max_temp = Some(OrigMaxTemp[k])
                    /\ wd.days_list[k].min_temp = Some(OrigMinTemp[k])
                    /\ wd.days_list[k].uv_index = Some(OrigUvIndex[k])
                    /\ wd.days_list[k].cloud_cover = Some(OrigCloudCover[k])

\* two days were aggregated; the second day's cloud cover is the test
\* payload's second HOURLY sample
C1_Witness ==
    /\ pc = "country"
    /\ LongEnough
    /\ days_num = 2
    /\ Len(wd.days_list) = 2
    /\ wd.days_list[2].cloud_cover = Some(TestCloudCover[2])

\* C2: the cursor into the hourly humidity series starts at 0 and advances
\* by 24 per day, and the humidity of day i's record is the mean (as
\* calc_total_humidity returns it, to two decimals) of exactly the 24 values
\* at positions 24*i .. 24*i+23 of the original series.
C2_HumidityWindows ==
    ~IsNone(wd.humiditys) =>
        /\ Val(wd.humiditys) = Drop(OrigHumidity, HoursPerDay * wd.i)
        /\ Len(wd.days_list) = wd.i
        /\ \A k \in 1..Len(wd.days_list) :
              wd.days_list[k].total_humidity =
                  Some(Format2f(SumSeq(DayWindow(OrigHumidity, k)), HoursPerDay))

\* the second day's record was built, from hours 24..47
C2_Witness ==
    /\ pc = "create_days_list"
    /\ wd.i = 2
    /\ Len(OrigHumidity) = 2 * HoursPerDay
    /\ wd.humiditys = Some(<<>>)
    /\ DayWindow(OrigHumidity, 2) # DayWindow(OrigHumidity, 1)

\* C3 as amended: for the 24 hourly values of the test payload,
\* calc_total_humidity returns 65.17 (their sum is 1564; 1564 / 24 = 65.1666...).
C3_TestSliceIs6517 ==
    \A k \in 1..Len(wd.days_list) :
        DayWindow(OrigHumidity, k) = TestHumidity =>
            wd.days_list[k].total_humidity = Some(6517)

\* a record was computed from the test payload's 24 values
C3_Witness ==
    /\ Len(wd.days_list) >= 1
    /\ DayWindow(OrigHumidity, 1) = TestHumidity
    /\ wd.days_list[1].total_humidity = Some(6517)

\* C3 as stated: for the 24 hourly values of the test payload,
\* calc_total_humidity returns 64.54.
C3_Original ==
    \A k \in 1..Len(wd.days_list) :
        DayWindow(OrigHumidity, k) = TestHumidity =>
            wd.days_list[k].total_humidity = Some(6454)

\* C4 as stated: when 24 * days_num exceeds the hourly humidity length, or
\* days_num exceeds the length of a daily series, aggregation ends in an
\* exception of the dedicated kind InsufficientDataError.
C4_Original ==
    HasResult /\ TooShort /\ pc \notin {"parse", "create_days_list"} =>
        pc = "raised" /\ error = "InsufficientDataError"

\* The part of C4 the source does provide: on such series aggregation
\* raises (Python's IndexError) and returns no list, truncated or otherwise.
AggregationRaisesIndexError ==
    HasResult /\ TooShort /\ pc \notin {"parse", "create_days_list"} =>
        AggregationRaised /\ error = "IndexError" /\ IsNone(data)

\* C5: every failure of get_geocode (the request or its decoding raising, no
\* "results" key, an empty result list, a first result that is no object)
\* leaves it as one and the same exception kind, the ValueError raised with
\* "Location not found"; no other kind escapes.  (A first result that is an
\* object raises nothing, whatever keys it holds.)
C5_GeocodeFailsWithOneKind ==
    /\ ~IsNone(res) /\ Val(res).kind # "ok" => pc = "raised" /\ error = "ValueError"
    /\ pc = "raised" /\ calls[Len(calls)] = "geocode" =>
          error = "ValueError" /\ Val(res).kind # "ok"

\* the geocoding request itself failed, in the first call
C5_Witness ==
    /\ pc = "raised"
    /\ calls = <<"geocode">>
    /\ Val(res).kind = "raises"
    /\ error = "ValueError"

\* C6 as stated: for a payload lacking a top-level key or one of the six
\* sub-keys, and any day count, the pipeline raises the kind
\* MalformedResponseError instead of producing a list of records.
C6_Original ==
    HasResult /\ LacksKey /\ pc \notin {"parse", "create_days_list"} =>
        pc = "raised" /\ error = "MalformedResponseError"

\* C7: make_data_ready returns one dictionary per input record, in order,
\* element k carrying record k's six values and the given country and city;
\* nothing is filtered, the input list is as create_days_list built it, and
\* the empty list gives the empty list.
C7_MakeDataReadyMaps ==
    pc = "done" =>
        /\ ~IsNone(data)
        /\ Len(Val(data)) = Len(wd.days_list)
        /\ Len(wd.days_list) = days_num
        /\ \A k \in 1..Len(wd.days_list) :
              /\ Val(data)[k].country = country_arg
              /\ Val(data)[k].city = city_arg
              /\ Val(data)[k].time = wd.days_list[k].time
              /\ Val(data)[k].max_temp = wd.days_list[k].max_temp
              /\ Val(data)[k].min_temp = wd.days_list[k].min_temp
              /\ Val(data)[k].humidity = wd.days_list[k].total_humidity
              /\ Val(data)[k].uv_index = wd.days_list[k].uv_index
              /\ Val(data)[k].cloud_cover = wd.days_list[k].cloud_cover
              /\ wd.days_list[k].time = Some(OrigTime[k])
              /\ wd.days_list[k].total_humidity =
                    Some(Format2f(SumSeq(DayWindow(OrigHumidity, k)), HoursPerDay))

\* two records were formatted
C7_Witness ==
    /\ pc = "done"
    /\ Len(Val(data)) = 2
    /\ Val(data)[1].time # Val(data)[2].time
    /\ Val(data)[2].city = Some("Haifa")

\* C8: a failure inside save_to_history never reaches index: a POST whose
\* get_weather call returned is answered with the data page, whether the
\* history append succeeded or not.
C8_HistoryFailureSwallowed ==
    \A t \in Requests :
        /\ wx[t] = "returned" => hpc[t] # "except"
        /\ hpc[t] = "done" /\ method[t] = "POST" /\ wx[t] = "returned" => page[t] = "data"

\* a request whose history append failed got the data page
C8_Witness ==
    \E t \in Requests :
        /\ hpc[t] = "done"
        /\ wx[t] = "returned"
        /\ saved[t] = "failed"
        /\ page[t] = "data"

\* C9 as stated: whatever the interleaving of concurrent save_to_history
\* calls, once all have ended without an I/O or decoding failure the file
\* holds one entry for every call.
C9_Original ==
    (/\ \A t \in Requests : hpc[t] = "done"
     /\ \A t \in Requests : saved[t] # "failed") =>
        /\ file.exists => file.valid
        /\ \A t \in Requests :
              saved[t] = "written" =>
                  \E k \in 1..Len(file.entries) : file.entries[k] = LogEntry(t)

\* C10 as stated, for an invocation that returns records: get_weather has
\* issued exactly one geocoding call followed by exactly one forecast call,
\* and no external call after the forecast call.
C10_Original ==
    pc = "done" /\ days_num > 0 => calls = <<"geocode", "forecast">>

====
